---- MODULE Spec2Model ----
(***************************************************************************)
(* Model of the currency worker of src/index.js (the second program of the *)
(* file, lines 197-733): input normalisation, relative time-range          *)
(* resolution, the request handler with its fallback chains, the yearly    *)
(* statistics of generateHistoryTable and combineEuroData.                 *)
(*                                                                         *)
(* Strings are sequences of one-character tokens.  A CJK character is      *)
(* written by its pinyin name ("nian" is the character for year, "yue"     *)
(* month, "tian" day, "guo","qu" the two characters of "past", "zui","jin" *)
(* the two characters of "recent", "ge" the measure word of "ge yue").     *)
(* A calendar date is a record [y, m, d] with m zero-based as in the       *)
(* JavaScript Date API.  The worker runs in UTC, so local and UTC calendar *)
(* fields coincide; time of day is not modelled (every start date the      *)
(* resolver builds is a midnight, so comparing dates compares instants).   *)
(***************************************************************************)
EXTENDS Integers, Sequences, FiniteSets, TLC

VARIABLES
    now,        \* the date returned by new Date() in parseTimeRange
    phrase,     \* the input of parseTimeRange: a sequence of characters
    range,      \* <<the DateRange returned by parseTimeRange>>, or NoResult
    curIn,      \* the input of normalizeCurrency
    curOut,     \* <<normalizeCurrency(curIn)>>, or NoResult
    curOut2,    \* <<normalizeCurrency applied to that result>>, or NoResult
    amtIn,      \* the input of parseInputAmount
    amtOut,     \* <<parseInputAmount(amtIn)>>, or NoResult
    req,        \* the request: its path and its query parameters
    pc,         \* where the handling of the request stands
    params,     \* <<what parseParams returned>>, or NoResult
    fbIndex,    \* the index in fallbackRanges of tryFallbackTimeRange's loop
    fetchLog,   \* the upstream calls issued so far, in order
    cacheLog,   \* the accesses to caches.default so far, in order
    steps,      \* what each step of the path's chain has yielded, in order
    legs,       \* the state of the two promises given to Promise.all
    resp,       \* <<the response given to event.respondWith>>, or NoResult
    series,     \* the data.rates given to generateHistoryTable, in key order
    report,     \* <<what generateHistoryTable returned>>, or NoResult
    legA,       \* the rates of fromToEurData given to combineEuroData
    legB,       \* the rates of eurToToData given to combineEuroData
    combined    \* <<the rates combineEuroData returned>>, or NoResult

timeVars == <<now, phrase, range>>
normVars == <<curIn, curOut, curOut2>>
amtVars == <<amtIn, amtOut>>
reqVars == <<req, pc, params, fbIndex, fetchLog, cacheLog, steps, legs, resp>>
tableVars == <<series, report>>
combineVars == <<legA, legB, combined>>
vars == <<timeVars, normVars, amtVars, reqVars, tableVars, combineVars>>

\* a result variable holds <<>> until the call has returned, then <<value>>
NoResult == <<>>

(***************************************************************************)
(* Bounds of the model.                                                    *)
(***************************************************************************)
BaseYear == 2023     \* first year from which "now" is drawn
YearSpan == 2        \* "now" ranges over BaseYear .. BaseYear + YearSpan
MaxN == 25           \* the number N of a phrase ranges over 0 .. MaxN

(***************************************************************************)
(* The values of the variables a specification does not use.               *)
(***************************************************************************)
TimeIdle ==
    now = [y |-> BaseYear, m |-> 0, d |-> 1] /\ phrase = <<>> /\ range = NoResult
NormIdle == curIn = NoResult /\ curOut = NoResult /\ curOut2 = NoResult
AmtIdle == amtIn = NoResult /\ amtOut = NoResult
ReqIdle ==
    /\ req = NoResult /\ pc = "none" /\ params = NoResult /\ fbIndex = 0
    /\ fetchLog = <<>> /\ cacheLog = <<>> /\ resp = NoResult
    /\ steps = <<>> /\ legs = <<"idle", "idle">>
TableIdle == series = <<>> /\ report = NoResult
CombineIdle == legA = <<>> /\ legB = <<>> /\ combined = NoResult

(***************************************************************************)
(* Calendar: the arithmetic of the JavaScript Date object on dates.        *)
(***************************************************************************)
IsLeap(y) == (y % 4 = 0 /\ y % 100 # 0) \/ y % 400 = 0

DaysIn(y, m) ==
    IF m = 1 THEN (IF IsLeap(y) THEN 29 ELSE 28)
    ELSE IF m \in {3, 5, 8, 10} THEN 30
    ELSE 31

\* new Date(y, m, d) for m in 0..23 and d in 0..31: an out-of-range month
\* carries into the year, day 0 is the last day of the previous month and a
\* day beyond the month's length rolls into the following month.
MakeDay(y, m, d) ==
    LET yy == y + (m \div 12)
        mm == m % 12
    IN  IF d = 0
        THEN IF mm = 0
             THEN [y |-> yy - 1, m |-> 11, d |-> 31]
             ELSE [y |-> yy, m |-> mm - 1, d |-> DaysIn(yy, mm - 1)]
        ELSE IF d > DaysIn(yy, mm)
        THEN IF mm = 11
             THEN [y |-> yy + 1, m |-> 0, d |-> d - DaysIn(yy, mm)]
             ELSE [y |-> yy, m |-> mm + 1, d |-> d - DaysIn(yy, mm)]
        ELSE [y |-> yy, m |-> mm, d |-> d]

\* date.setDate(k): the day of the month is replaced within the month the
\* date is in at the time of the call.
SetDate(date, k) == MakeDay(date.y, date.m, k)

\* date.setFullYear(y): month and day are kept and then normalised.
SetFullYear(date, y) == MakeDay(y, date.m, date.d)

\* startDate > endDate on Date objects
DateGT(a, b) ==
    \/ a.y > b.y
    \/ a.y = b.y /\ a.m > b.m
    \/ a.y = b.y /\ a.m = b.m /\ a.d > b.d

DateLE(a, b) == ~DateGT(a, b)

\* the remainder operator of JavaScript: the sign follows the dividend
JSRem(a, b) == IF a >= 0 THEN a % b ELSE 0 - ((0 - a) % b)

Abs(a) == IF a >= 0 THEN a ELSE 0 - a

\* Math.ceil(a / b) for a >= 0, b > 0
CeilDiv(a, b) == (a + b - 1) \div b

(***************************************************************************)
(* parseTimeRange                                                          *)
(***************************************************************************)
DEFAULT_HISTORY_YEARS == 10

Digits == {"0", "1", "2", "3", "4", "5", "6", "7", "8", "9"}

DigitVal(c) ==
    CASE c = "0" -> 0 [] c = "1" -> 1 [] c = "2" -> 2 [] c = "3" -> 3
      [] c = "4" -> 4 [] c = "5" -> 5 [] c = "6" -> 6 [] c = "7" -> 7
      [] c = "8" -> 8 [] c = "9" -> 9

\* parseInt of a string of decimal digits
RECURSIVE ParseInt(_)
ParseInt(s) ==
    IF s = <<>> THEN 0
    ELSE 10 * ParseInt(SubSeq(s, 1, Len(s) - 1)) + DigitVal(s[Len(s)])

\* s has the characters of t at position i
HasAt(s, i, t) ==
    /\ i >= 1
    /\ i + Len(t) - 1 <= Len(s)
    /\ SubSeq(s, i, i + Len(t) - 1) = t

\* the end of the run of digits that starts at position i (i - 1 if none)
RECURSIVE DigitRunEnd(_, _)
DigitRunEnd(s, i) ==
    IF i <= Len(s) /\ s[i] \in Digits THEN DigitRunEnd(s, i + 1) ELSE i - 1

\* the alternation (nian|ge yue|yue) tried at position i, in that order
UnitAt(s, i) ==
    IF HasAt(s, i, <<"nian">>) THEN "nian"
    ELSE IF HasAt(s, i, <<"ge", "yue">>) THEN "geyue"
    ELSE IF HasAt(s, i, <<"yue">>) THEN "yue"
    ELSE "none"

\* The pattern /(guoqu|zuijin)?(\d+)(nian|ge yue|yue)/ tried with its digits
\* starting at position i: \d+ is greedy and the unit is no digit, so the
\* digits are the whole run and the unit must follow it.
MatchAt(s, i) ==
    LET e == DigitRunEnd(s, i)
    IN  IF e >= i /\ UnitAt(s, e + 1) # "none"
        THEN [ok |-> TRUE, num |-> ParseInt(SubSeq(s, i, e)), unit |-> UnitAt(s, e + 1)]
        ELSE [ok |-> FALSE, num |-> 0, unit |-> "none"]

\* input.match(...): the leftmost match.  The optional prefix only moves the
\* start of the match and not the captured number and unit; a match that
\* starts inside a run of digits is preceded by the one of the whole run.
RECURSIVE MatchFrom(_, _)
MatchFrom(s, i) ==
    IF i > Len(s) THEN [ok |-> FALSE, num |-> 0, unit |-> "none"]
    ELSE IF MatchAt(s, i).ok THEN MatchAt(s, i)
    ELSE MatchFrom(s, i + 1)

MatchRange(s) == MatchFrom(s, 1)

\* const endDate = new Date(now)
EndDateOf(n) == n

\* lines 522-534: unit nian
YearBranch(n, num) ==
    LET startYear == n.y - num
        startDate == MakeDay(startYear, n.m, n.d)
    IN  IF n.m = 1 /\ n.d = 29 /\ ~IsLeap(startYear)
        THEN SetDate(startDate, 28)
        ELSE startDate

\* the month-length policy left out: the rolled-over date is kept
ClampMonthEnd_NoClamp(startDate, currentDate) == startDate

\* lines 545-547: the month-length policy
ClampMonthEnd(startDate, currentDate) ==
    IF startDate.d # currentDate THEN SetDate(startDate, 0) ELSE startDate

\* lines 536-549: units ge yue and yue
MonthBranch(n, num) ==
    LET targetMonth == n.m - num
        yearsBack == CeilDiv(Abs(targetMonth), 12)
        adjustedMonth == 12 + JSRem(targetMonth, 12)
        startDate == IF targetMonth >= 0
                     THEN MakeDay(n.y, targetMonth, n.d)
                     ELSE MakeDay(n.y - yearsBack, adjustedMonth, n.d)
    IN  ClampMonthEnd(startDate, n.d)

\* lines 551-563: no match
DefaultBranch(n) == YearBranch(n, DEFAULT_HISTORY_YEARS)

\* lines 565-568
PostCondition(startDate, endDate) ==
    IF DateGT(startDate, endDate)
    THEN SetFullYear(endDate, endDate.y - 1)
    ELSE startDate

\* parseTimeRange returning its two dates under each other's name
ParseTimeRange_Swapped(input, n) ==
    LET mt == MatchRange(input)
        endDate == EndDateOf(n)
        startDate == IF mt.ok
                     THEN IF mt.unit = "nian"
                          THEN YearBranch(n, mt.num)
                          ELSE MonthBranch(n, mt.num)
                     ELSE DefaultBranch(n)
    IN  [startDate |-> endDate, endDate |-> PostCondition(startDate, endDate)]

ParseTimeRange(input, n) ==
    LET mt == MatchRange(input)
        endDate == EndDateOf(n)
        startDate == IF mt.ok
                     THEN IF mt.unit = "nian"
                          THEN YearBranch(n, mt.num)
                          ELSE MonthBranch(n, mt.num)
                     ELSE DefaultBranch(n)
    IN  [startDate |-> PostCondition(startDate, endDate), endDate |-> endDate]

(***************************************************************************)
(* Inputs of the resolver                                                  *)
(***************************************************************************)
\* the decimal digits of k, as Number.prototype.toString writes them
RECURSIVE ToDigits(_)
ToDigits(k) ==
    LET c == CHOOSE ch \in Digits : DigitVal(ch) = k % 10
    IN  IF k < 10 THEN <<c>> ELSE Append(ToDigits(k \div 10), c)

Prefixes == {<<>>, <<"guo", "qu">>, <<"zui", "jin">>}
MonthUnits == {<<"ge", "yue">>, <<"yue">>}
Units == {<<"nian">>, <<"tian">>, <<>>} \cup MonthUnits
Numbers == {<<>>} \cup {ToDigits(k) : k \in 0..MaxN}

Phrases == {p \o k \o u : p \in Prefixes, k \in Numbers, u \in Units}

NowDays == {1, 15, 28, 29, 30, 31}

Nows ==
    {[y |-> yy, m |-> mm, d |-> dd] :
        yy \in BaseYear..(BaseYear + YearSpan), mm \in 0..11, dd \in NowDays}

ValidNows == {n \in Nows : n.d <= DaysIn(n.y, n.m)}

InitTime ==
    /\ now \in ValidNows
    /\ phrase \in Phrases
    /\ range = NoResult
    /\ NormIdle /\ AmtIdle /\ ReqIdle /\ TableIdle /\ CombineIdle

DoParseTimeRange ==
    /\ range = NoResult
    /\ range' = <<ParseTimeRange(phrase, now)>>
    /\ UNCHANGED <<now, phrase, normVars, amtVars, reqVars, tableVars, combineVars>>

NextTime == DoParseTimeRange

SpecTime == InitTime /\ [][NextTime]_vars

(***************************************************************************)
(* Claims about parseTimeRange (checked under SpecTime)                    *)
(***************************************************************************)
Returned == range # NoResult
StartOf == range[1].startDate
EndOf == range[1].endDate

YearPhrases(k) == {p \o ToDigits(k) \o <<"nian">> : p \in Prefixes}
MonthPhrases(k) == {p \o ToDigits(k) \o u : p \in Prefixes, u \in MonthUnits}
DayPhrases(k) == {p \o ToDigits(k) \o <<"tian">> : p \in Prefixes}

\* the calendar day before a date, and k days before it
PrevDay(date) ==
    IF date.d > 1 THEN [date EXCEPT !.d = date.d - 1]
    ELSE IF date.m > 0
    THEN [y |-> date.y, m |-> date.m - 1, d |-> DaysIn(date.y, date.m - 1)]
    ELSE [y |-> date.y - 1, m |-> 11, d |-> 31]

RECURSIVE MinusDays(_, _)
MinusDays(date, k) == IF k = 0 THEN date ELSE MinusDays(PrevDay(date), k - 1)

\* the calendar month k months before the month of a date, as months since
\* year 0
MonthIndex(date) == date.y * 12 + date.m
TargetYear(date, k) == (MonthIndex(date) - k) \div 12
TargetMonth(date, k) == (MonthIndex(date) - k) % 12

\* C1: unit nian, now is Feb 29 and the year now.y - N is not a leap year:
\* start is Feb 28 of that year and end is now.
C1_LeapDayStartIsFeb28 ==
    \A k \in 1..MaxN :
        (Returned /\ phrase \in YearPhrases(k)
            /\ now.m = 1 /\ now.d = 29 /\ ~IsLeap(now.y - k))
        => /\ StartOf = [y |-> now.y - k, m |-> 1, d |-> 28]
           /\ EndOf = now

\* C2: units ge yue / yue: when the target month has fewer days than now's
\* day of the month, start is the last day of the target month (never a day
\* of the following month); now = 2024-01-31 with N = 1 gives 2023-12-31.
C2_MonthLengthClamp ==
    /\ \A k \in 1..MaxN :
        (Returned
            /\ DaysIn(TargetYear(now, k), TargetMonth(now, k)) < now.d
            /\ phrase \in MonthPhrases(k))
        => StartOf = [y |-> TargetYear(now, k), m |-> TargetMonth(now, k),
                      d |-> DaysIn(TargetYear(now, k), TargetMonth(now, k))]
    /\ (Returned /\ phrase \in MonthPhrases(1) /\ now = [y |-> 2024, m |-> 0, d |-> 31])
        => StartOf = [y |-> 2023, m |-> 11, d |-> 31]

\* now = 2024-03-31 with "guo qu 1 ge yue": start is clamped to 2024-02-29
C2_Witness ==
    /\ Returned
    /\ now = [y |-> 2024, m |-> 2, d |-> 31]
    /\ phrase = <<"guo", "qu", "1", "ge", "yue">>
    /\ StartOf = [y |-> 2024, m |-> 1, d |-> 29]

\* C3: units ge yue / yue: the (year, month) of start is exactly N calendar
\* months before the (year, month) of now, for every N >= 1.
C3_MonthsBackExact ==
    \A k \in 1..MaxN :
        (Returned /\ phrase \in MonthPhrases(k))
        => MonthIndex(StartOf) = MonthIndex(now) - k

\* C4: unit tian: "guo qu N tian", "zui jin N tian" and "N tian" give
\* start = now minus N days and end = now.
C4_DaysBack ==
    \A k \in 1..MaxN :
        (Returned /\ phrase \in DayPhrases(k))
        => /\ StartOf = MinusDays(now, k)
           /\ EndOf = now

Str(s) == [t |-> "string", s |-> s]
JSNull == [t |-> "null", s |-> <<>>]
JSUndefined == [t |-> "undefined", s |-> <<>>]

\* !v is false: a non-empty string
Truthy(v) == v.t = "string" /\ v.s # <<>>

(***************************************************************************)
(* normalizeCurrency                                                       *)
(*                                                                         *)
(* CJK characters by pinyin: mei3 jin = "US gold", mei3 yuan = "US         *)
(* dollar", dao = "knife", ren min bi = "renminbi", ruan mei4 bi (slang),  *)
(* ri yuan, wo yuan, ou yuan, ying bang, jia yuan, ao yuan,                *)
(* rui shi fa lang, gang bi, gang yuan.                                    *)
(***************************************************************************)
Alias(key, code) == [key |-> key, code |-> code]

USD == <<"U", "S", "D">>
CNY == <<"C", "N", "Y">>
JPY == <<"J", "P", "Y">>
EUR == <<"E", "U", "R">>
GBP == <<"G", "B", "P">>
CAD == <<"C", "A", "D">>
AUD == <<"A", "U", "D">>
CHF == <<"C", "H", "F">>
HKD == <<"H", "K", "D">>

\* the object literal, in the order Object.keys enumerates it
CURRENCY_ALIAS ==
    << Alias(USD, USD), Alias(<<"mei3", "jin">>, USD),
       Alias(<<"mei3", "yuan">>, USD), Alias(<<"dao">>, USD),
       Alias(CNY, CNY), Alias(<<"ren", "min", "bi">>, CNY),
       Alias(<<"r", "m", "b">>, CNY), Alias(<<"ruan", "mei4", "bi">>, CNY),
       Alias(JPY, JPY), Alias(<<"ri", "yuan">>, JPY),
       Alias(<<"wo", "yuan">>, JPY),
       Alias(EUR, EUR), Alias(<<"ou", "yuan">>, EUR),
       Alias(GBP, GBP), Alias(<<"ying", "bang">>, GBP),
       Alias(CAD, CAD), Alias(<<"jia", "yuan">>, CAD),
       Alias(AUD, AUD), Alias(<<"ao", "yuan">>, AUD),
       Alias(CHF, CHF), Alias(<<"rui", "shi", "fa", "lang">>, CHF),
       Alias(HKD, HKD), Alias(<<"gang", "bi">>, HKD),
       Alias(<<"gang", "yuan">>, HKD) >>

AliasKeys == {CURRENCY_ALIAS[i].key : i \in 1..Len(CURRENCY_ALIAS)}
AliasCodes == {CURRENCY_ALIAS[i].code : i \in 1..Len(CURRENCY_ALIAS)}

UpperLetters ==
    {"A", "B", "C", "D", "E", "F", "G", "H", "J", "K", "M", "N", "P", "R",
     "S", "U", "X", "Y", "Z"}
LowerLetters ==
    {"a", "b", "c", "d", "e", "f", "g", "h", "j", "k", "m", "n", "p", "r",
     "s", "u", "x", "y", "z"}
CJK ==
    {"mei3", "jin", "yuan", "dao", "ren", "min", "bi", "ruan", "mei4", "ri",
     "wo", "ou", "ying", "bang", "jia", "ao", "rui", "shi", "fa", "lang",
     "gang", "bi", "wan", "qian", "yi", "bai", "nian", "ge", "yue", "tian"}

\* String.prototype.toUpperCase on one character
UpperChar(c) ==
    CASE c = "a" -> "A" [] c = "b" -> "B" [] c = "c" -> "C" [] c = "d" -> "D"
      [] c = "e" -> "E" [] c = "f" -> "F" [] c = "g" -> "G" [] c = "h" -> "H"
      [] c = "j" -> "J" [] c = "k" -> "K" [] c = "m" -> "M" [] c = "n" -> "N"
      [] c = "p" -> "P" [] c = "r" -> "R" [] c = "s" -> "S" [] c = "u" -> "U"
      [] c = "w" -> "W" [] c = "x" -> "X" [] c = "y" -> "Y" [] c = "z" -> "Z"
      [] OTHER -> c

ToUpperCase(s) == [i \in 1..Len(s) |-> UpperChar(s[i])]

\* .replace(/[^A-Z\u4e00-\u9fa5]/g, ''): only A-Z and CJK characters stay
RECURSIVE StripNonLetters(_)
StripNonLetters(s) ==
    IF s = <<>> THEN <<>>
    ELSE IF Head(s) \in UpperLetters \cup {"W"} \cup CJK
    THEN <<Head(s)>> \o StripNonLetters(Tail(s))
    ELSE StripNonLetters(Tail(s))

Cleaned(s) == StripNonLetters(ToUpperCase(s))

\* a.includes(b): b is a contiguous part of a (the empty string always is)
Includes(a, b) == \E i \in 1..(Len(a) + 1) : HasAt(a, i, b)

\* CURRENCY_ALIAS[cleaned]: the code of the own key cleaned, or undefined
Lookup(cleaned) ==
    IF cleaned \in AliasKeys
    THEN Str(CURRENCY_ALIAS[CHOOSE i \in 1..Len(CURRENCY_ALIAS) :
                                CURRENCY_ALIAS[i].key = cleaned].code)
    ELSE JSUndefined

\* Object.keys(CURRENCY_ALIAS).find(key => key.includes(cleaned) ||
\* cleaned.includes(key)): the first such key itself, or undefined
RECURSIVE FindKeyFrom(_, _)
FindKeyFrom(cleaned, i) ==
    IF i > Len(CURRENCY_ALIAS) THEN JSUndefined
    ELSE IF Includes(CURRENCY_ALIAS[i].key, cleaned)
            \/ Includes(cleaned, CURRENCY_ALIAS[i].key)
    THEN Str(CURRENCY_ALIAS[i].key)
    ELSE FindKeyFrom(cleaned, i + 1)

FindKey(cleaned) == FindKeyFrom(cleaned, 1)

NormalizeCurrency(input) ==
    IF ~Truthy(input) THEN JSNull
    ELSE IF Truthy(Lookup(Cleaned(input.s)))
    THEN Lookup(Cleaned(input.s))
    ELSE FindKey(Cleaned(input.s))

(***************************************************************************)
(* Inputs of normalizeCurrency                                             *)
(***************************************************************************)
\* the contiguous parts of the alias keys, the empty one included
KeyParts ==
    UNION {{SubSeq(k, i, j) : i \in 1..(Len(k) + 1), j \in 0..Len(k)} : k \in AliasKeys}

LowerChar(c) ==
    IF c \in UpperLetters
    THEN CHOOSE l \in LowerLetters : UpperChar(l) = c
    ELSE c

ToLowerCase(s) == [i \in 1..Len(s) |-> LowerChar(s[i])]

\* characters the cleaning removes, put before and after an input
Junk == {<<>>, <<"$">>, <<" ">>, <<"1", "2", "3">>}

CurrencyStrings ==
    {j \o b \o t : j \in Junk, t \in {<<>>, <<"$">>},
        b \in KeyParts \cup {ToLowerCase(k) : k \in AliasKeys}
              \cup {<<"X", "Y", "Z">>, <<"yi">>, USD \o CNY}}

CurrencyInputs == {JSNull} \cup {Str(s) : s \in CurrencyStrings}

InitNorm ==
    /\ curIn \in CurrencyInputs
    /\ curOut = NoResult
    /\ curOut2 = NoResult
    /\ TimeIdle /\ AmtIdle /\ ReqIdle /\ TableIdle /\ CombineIdle

DoNormalize ==
    /\ curOut = NoResult
    /\ curOut' = <<NormalizeCurrency(curIn)>>
    /\ UNCHANGED <<timeVars, curIn, curOut2, amtVars, reqVars, tableVars, combineVars>>

\* the result of the first call normalised again
DoRenormalize ==
    /\ curOut # NoResult
    /\ curOut2 = NoResult
    /\ curOut2' = <<NormalizeCurrency(curOut[1])>>
    /\ UNCHANGED <<timeVars, curIn, curOut, amtVars, reqVars, tableVars, combineVars>>

NextNorm == DoNormalize \/ DoRenormalize

SpecNorm == InitNorm /\ [][NextNorm]_vars

(***************************************************************************)
(* Claims about normalizeCurrency (checked under SpecNorm)                 *)
(***************************************************************************)
\* null and undefined both tell the caller that nothing matched
NoMatch(v) == v \in {JSNull, JSUndefined}

\* C6: for every key of CURRENCY_ALIAS, the ISO codes, the aliases and the
\* lowercase key "rmb" included, normalizeCurrency(key) is the code the
\* table maps the key to.
C6_EveryKeyMapsToItsCode ==
    \A i \in 1..Len(CURRENCY_ALIAS) :
        (curOut # NoResult /\ curIn = Str(CURRENCY_ALIAS[i].key))
        => curOut[1] = Str(CURRENCY_ALIAS[i].code)

\* C7: normalizeCurrency(s) is either no match or a canonical code (a value
\* of the table), and normalising the result again gives the same result,
\* also for inputs resolved by the substring fallback.
C7_CodeOrNullAndIdempotent ==
    /\ curOut # NoResult
        => (NoMatch(curOut[1]) \/ (curOut[1].t = "string" /\ curOut[1].s \in AliasCodes))
    /\ curOut2 # NoResult
        => \/ curOut2[1] = curOut[1]
           \/ NoMatch(curOut2[1]) /\ NoMatch(curOut[1])

\* the input matches an alias key exactly or by containment, after cleaning
MatchesSomeKey(s) ==
    /\ Cleaned(s) # <<>>
    /\ \E k \in AliasKeys : Includes(k, Cleaned(s)) \/ Includes(Cleaned(s), k)

\* C8: normalizeCurrency returns no match for every input that matches no
\* alias key exactly or by substring, including an absent input and an
\* input that is empty after stripping (such as "123" or "$").
C8_NoMatchGivesNull ==
    (curOut # NoResult /\ (curIn.t # "string" \/ ~MatchesSomeKey(curIn.s)))
    => NoMatch(curOut[1])

(***************************************************************************)
(* parseInputAmount                                                        *)
(*                                                                         *)
(* A number is a decimal m * 10^e kept in lowest form (m has no trailing   *)
(* zero, zero is 0 * 10^0), or NaN.  The unit factors of UNIT_MAP are      *)
(* powers of ten and are kept by their exponent.  CJK characters: wan =    *)
(* ten thousand, yi = hundred million, qian = thousand, bai wan = million. *)
(***************************************************************************)
NaN == [t |-> "NaN", m |-> 0, e |-> 0]

RECURSIVE Dec(_, _)
Dec(m, e) ==
    IF m = 0 THEN [t |-> "num", m |-> 0, e |-> 0]
    ELSE IF m % 10 = 0 THEN Dec(m \div 10, e + 1)
    ELSE [t |-> "num", m |-> m, e |-> e]

\* num *= 10^k
TimesPow10(v, k) == IF v.t = "NaN" THEN NaN ELSE Dec(v.m, v.e + k)

\* isNaN(amount)
IsNaN(v) == v.t = "NaN"

Unit(key, exp) == [key |-> key, exp |-> exp]

\* 1e4, 1e4, 1e8, 1e3, 1e3, 1e6, 1e6, 1e3, 1e6
UNIT_MAP ==
    << Unit(<<"wan">>, 4), Unit(<<"w">>, 4), Unit(<<"yi">>, 8),
       Unit(<<"k">>, 3), Unit(<<"K">>, 3), Unit(<<"m">>, 6), Unit(<<"M">>, 6),
       Unit(<<"qian">>, 3), Unit(<<"bai", "wan">>, 6) >>

UnitKeys == {UNIT_MAP[i].key : i \in 1..Len(UNIT_MAP)}

\* UNIT_MAP[key] for an own key
UnitExp(key) == UNIT_MAP[CHOOSE i \in 1..Len(UNIT_MAP) : UNIT_MAP[i].key = key].exp

\* the character classes [0-9,.], \s and [wan qian yi K M k m bai wan]
NumChars == Digits \cup {",", "."}
SpaceChars == {" "}
UnitChars == {"wan", "qian", "yi", "K", "M", "k", "m", "bai"}

\* the end of the run of characters of class cls that starts at position i
RECURSIVE RunEnd(_, _, _)
RunEnd(s, i, cls) ==
    IF i <= Len(s) /\ s[i] \in cls THEN RunEnd(s, i + 1, cls) ELSE i - 1

\* .replace(/,/g, '')
RECURSIVE RemoveCommas(_)
RemoveCommas(s) ==
    IF s = <<>> THEN <<>>
    ELSE IF Head(s) = "," THEN RemoveCommas(Tail(s))
    ELSE <<Head(s)>> \o RemoveCommas(Tail(s))

\* parseFloat of a string of digits and dots: the longest leading decimal
\* literal (digits, then optionally a dot and digits), NaN when it has no digit
ParseFloat(s) ==
    LET ie == RunEnd(s, 1, Digits)
        fe == IF ie + 1 <= Len(s) /\ s[ie + 1] = "."
              THEN RunEnd(s, ie + 2, Digits)
              ELSE ie
        int == SubSeq(s, 1, ie)
        frac == SubSeq(s, ie + 2, fe)
    IN  IF Len(int) + Len(frac) = 0 THEN NaN
        ELSE Dec(ParseInt(int \o frac), 0 - Len(frac))

\* input.match(/^([0-9,.]+)\s*([units]+)?/): both groups are greedy and
\* everything after the first group may match the empty string
MatchAmount(s) ==
    LET e1 == RunEnd(s, 1, NumChars)
        e2 == RunEnd(s, e1 + 1, SpaceChars)
        e3 == RunEnd(s, e2 + 1, UnitChars)
    IN  [ok |-> e1 >= 1, g1 |-> SubSeq(s, 1, e1), g2 |-> SubSeq(s, e2 + 1, e3)]

ParseInputAmount(input) ==
    IF ~Truthy(input) THEN Dec(1, 0)
    ELSE LET mt == MatchAmount(input.s)
             num == ParseFloat(RemoveCommas(mt.g1))
         IN  IF ~mt.ok THEN NaN
             ELSE IF mt.g2 # <<>> /\ mt.g2 \in UnitKeys
             THEN TimesPow10(num, UnitExp(mt.g2))
             ELSE num

(***************************************************************************)
(* Inputs of parseInputAmount                                              *)
(***************************************************************************)
MaxAmount == 12      \* the whole numbers 0 .. MaxAmount are written out

AmountNumbers ==
    {ToDigits(k) : k \in 0..MaxAmount}
    \cup {<<>>, <<"1", ".", "5">>, <<"1", ",", "0", "0", "0">>, <<".">>, <<",">>,
          <<".", "5">>, <<"1", ".", "2", ".", "3">>}

AmountUnits ==
    UnitKeys \cup {<<>>, <<"wan", "qian">>, <<"a", "b", "c">>, <<"W">>, <<"yuan">>}

AmountStrings ==
    {n \o sp \o u : n \in AmountNumbers, sp \in {<<>>, <<" ">>}, u \in AmountUnits}

AmountInputs == {JSNull} \cup {Str(s) : s \in AmountStrings}

InitAmount ==
    /\ amtIn \in AmountInputs
    /\ amtOut = NoResult
    /\ TimeIdle /\ NormIdle /\ ReqIdle /\ TableIdle /\ CombineIdle

DoParseInputAmount ==
    /\ amtOut = NoResult
    /\ amtOut' = <<ParseInputAmount(amtIn)>>
    /\ UNCHANGED <<timeVars, normVars, amtIn, reqVars, tableVars, combineVars>>

NextAmount == DoParseInputAmount

SpecAmount == InitAmount /\ [][NextAmount]_vars

(***************************************************************************)
(* Claims about parseInputAmount (checked under SpecAmount)                *)
(***************************************************************************)
\* numeric prefixes with their values: the whole numbers and 1.5
NumericPrefixes ==
    {[text |-> ToDigits(k), val |-> Dec(k, 0)] : k \in 0..MaxAmount}
    \cup {[text |-> <<"1", ".", "5">>, val |-> Dec(15, 0 - 1)]}

\* C9: empty or absent input gives 1; input without a numeric prefix gives
\* NaN; a numeric prefix n alone gives n; n followed by any key u of
\* UNIT_MAP (wan, w, yi, k, K, m, M, qian, bai wan) gives n times the
\* factor of u.
C9_AmountOfPrefixAndUnit ==
    amtOut # NoResult =>
        /\ amtIn \in {JSNull, Str(<<>>)} => amtOut[1] = Dec(1, 0)
        /\ (amtIn.t = "string" /\ amtIn.s # <<>> /\ amtIn.s[1] \notin NumChars)
            => amtOut[1] = NaN
        /\ \A n \in NumericPrefixes :
            /\ amtIn = Str(n.text) => amtOut[1] = n.val
            /\ \A i \in 1..Len(UNIT_MAP) :
                amtIn = Str(n.text \o UNIT_MAP[i].key)
                => amtOut[1] = TimesPow10(n.val, UNIT_MAP[i].exp)

(***************************************************************************)
(* The request handler: handleRequest and the two paths it routes to.      *)
(* One action is one stretch of code between two awaits; what the upstream *)
(* answers to a call is chosen when the call returns.                      *)
(***************************************************************************)
\* params.get('range') || '10 nian'
DefaultRange == <<"1", "0", "nian">>

\* lines 258-268
ParseParams(r) ==
    LET from == NormalizeCurrency(r.from)
        to == NormalizeCurrency(r.to)
        amount == ParseInputAmount(r.amount)
        timeRange == IF Truthy(r.range) THEN r.range.s ELSE DefaultRange
        error == IF ~Truthy(from) \/ ~Truthy(to) THEN "unrecognized currency"
                 ELSE IF IsNaN(amount) THEN "invalid amount"
                 ELSE "none"
    IN  [error |-> error, from |-> from.s, to |-> to.s, amount |-> amount,
         timeRange |-> timeRange]

\* formatResponse(body, status = 200); the body is kept by its kind
Response(status, body) == [status |-> status, body |-> body, annotation |-> 0]

\* pathname.startsWith('/history')
IsHistoryPath(path) == path = "/history"

NoDate == [y |-> 0, m |-> 0, d |-> 0]

\* GET /latest?from=&to=
LatestCall(from, to) ==
    [kind |-> "latest", from |-> from, to |-> to, start |-> NoDate, end |-> NoDate]

\* GET /{start}..{end}?from=&to=
RangeCall(from, to, start, end) ==
    [kind |-> "range", from |-> from, to |-> to, start |-> start, end |-> end]

\* what one /latest call comes to: a 2xx response with the rate, a 2xx
\* response without it, a non-2xx response, an abort thrown when the timeout
\* fires, an error thrown by fetch, or a body response.json() cannot parse
LatestOutcomes == {"ok", "norate", "non2xx", "timeout", "error", "malformed"}

\* the numbers of dates a 2xx answer may carry: to the direct query (around
\* the 100 of line 374), to a leg query, and to a shrunk-range query (around
\* the 50 of line 496)
DirectPoints == {0, 99, 100}
LegPoints == {0, 1, 100}
ShrinkPoints == {0, 50, 51}

\* the ways a range call fails to give a parsed body
FailureKinds == {"non2xx", "timeout", "error", "malformed"}

\* what one range call comes to: points is the number of dates of
\* data.rates, valid the number of them with a usable rate
RangeOutcomes(counts) ==
    {[kind |-> k, points |-> 0, valid |-> 0] : k \in FailureKinds}
    \cup UNION {{[kind |-> "ok", points |-> n, valid |-> v] : v \in {0, n}} :
                    n \in counts}

\* lines 573-601: the kind of text generateHistoryTable returns
HistoryTableKind(points, valid) ==
    IF points = 0 THEN "no data"
    ELSE IF valid = 0 THEN "processing failed"
    ELSE "report"

\* lines 399-416: the result of tryDirectHistoricalQuery, null as ok = FALSE
DirectResult(o) ==
    IF o.kind # "ok" \/ o.points = 0
    THEN [ok |-> FALSE, content |-> "none", dataPoints |-> 0]
    ELSE [ok |-> TRUE, content |-> HistoryTableKind(o.points, o.valid),
          dataPoints |-> o.points]

\* lines 435-455: the result of tryEuroHistoricalQuery for the two legs'
\* bodies and c, the number of dates combineEuroData keeps; the table is
\* generated with the suffix that says the rates were computed through EUR
EuroResult(o1, o2, c) ==
    IF o1.kind # "ok" \/ o2.kind # "ok" \/ c = 0
    THEN [ok |-> FALSE, content |-> "none", dataPoints |-> 0]
    ELSE [ok |-> TRUE, content |-> "report via EUR", dataPoints |-> c]

\* lines 459-472: a date is kept when both legs have a usable rate for it
CombinedCounts(o1, o2) ==
    {c \in LegPoints : c <= o1.valid /\ c <= o2.valid}

\* the null a query function returns when it has no result
NullResult == [ok |-> FALSE, content |-> "none", dataPoints |-> 0]

\* what response.json() comes to for a 2xx response: a body, or a throw
RangeBodies == {o \in RangeOutcomes(LegPoints) : o.kind \in {"ok", "malformed"}}

\* the ranges from the narrowest to the widest
FallbackYears_Widening == <<1, 3, 5>>

\* lines 484-488
FallbackYears == <<5, 3, 1>>

\* lines 497-498: the text of a shrunk-range result, with the note that
\* names the range shown
Annotated(r, years) == [r EXCEPT !.annotation = years]

\* what a step of the chain yielded: failed when no parsed 2xx body came
\* back, points the number of dates of the series otherwise; years is the
\* length of the shrunk range, 0 for the range requested
StepResult(step, years, failed, points) ==
    [step |-> step, years |-> years, failed |-> failed, points |-> points]

\* how a promise given to Promise.all settles: fulfilled with a 2xx or a
\* non-2xx response, or rejected by the abort of the timeout or by an error
LegKinds == {"ok", "non2xx", "timeout", "error"}

\* line 431: both responses are ok
LegsBothOk_Either(a, b) == a = "ok" \/ b = "ok"

LegsBothOk(a, b) == a = "ok" /\ b = "ok"

Params == params[1]
TheRange == range[1]

otherVars == <<normVars, amtVars, tableVars, combineVars>>

\* handleRequest without the early return on a parameter error
HandleRequest_NoEarlyReturn ==
    /\ pc = "start"
    /\ params' = <<ParseParams(req[1])>>
    /\ pc' = IF IsHistoryPath(req[1].path) THEN "hist_direct" ELSE "rt_direct"
    /\ UNCHANGED <<timeVars, otherVars, req, fbIndex, fetchLog, cacheLog, steps, legs, resp>>

\* lines 239-255
HandleRequest ==
    /\ pc = "start"
    /\ params' = <<ParseParams(req[1])>>
    /\ IF ParseParams(req[1]).error # "none"
       THEN /\ resp' = <<Response(400, ParseParams(req[1]).error)>>
            /\ pc' = "done"
       ELSE /\ pc' = IF IsHistoryPath(req[1].path) THEN "hist_direct" ELSE "rt_direct"
            /\ UNCHANGED resp
    /\ UNCHANGED <<timeVars, otherVars, req, fbIndex, fetchLog, cacheLog, steps, legs>>

\* tryDirectConversion without the catch around fetchWithTimeout: the abort
\* of the timeout rejects handleRequest's promise
TryDirectConversionWith_TimeoutUncaught(o) ==
    /\ pc = "rt_direct"
    /\ fetchLog' = Append(fetchLog, LatestCall(Params.from, Params.to))
    /\ steps' = Append(steps, StepResult("direct", 0, o # "ok", 0))
    /\ IF o = "ok"
       THEN resp' = <<Response(200, "conversion")>> /\ pc' = "done"
       ELSE IF o = "timeout"
       THEN resp' = <<Response(500, "system error")>> /\ pc' = "done"
       ELSE pc' = "rt_euro" /\ UNCHANGED resp
    /\ UNCHANGED <<timeVars, otherVars, req, params, fbIndex, cacheLog, legs>>

\* lines 293-296 and 305-329: tryDirectConversion when the call comes to o.
\* A non-2xx response returns null at line 311, a response without the rate
\* at line 317, and whatever is thrown (the abort of the timeout, an error of
\* fetch, a body that does not parse) returns null from the catch at 325-328
TryDirectConversionWith(o) ==
    /\ pc = "rt_direct"
    /\ fetchLog' = Append(fetchLog, LatestCall(Params.from, Params.to))
    /\ steps' = Append(steps, StepResult("direct", 0, o # "ok", 0))
    /\ IF o = "ok"
       THEN resp' = <<Response(200, "conversion")>> /\ pc' = "done"
       ELSE pc' = "rt_euro" /\ UNCHANGED resp
    /\ UNCHANGED <<timeVars, otherVars, req, params, fbIndex, cacheLog, legs>>

\* lines 293-296: the direct conversion, whatever its call comes to
TryDirectConversion == \E o \in LatestOutcomes : TryDirectConversionWith(o)

\* tryEuroConversion with no catch on the promise given to respondWith
TryEuroConversion_Unanswered ==
    /\ pc = "rt_euro"
    /\ fetchLog' = fetchLog \o <<LatestCall(Params.from, EUR), LatestCall(EUR, Params.to)>>
    /\ \E o1 \in LatestOutcomes, o2 \in LatestOutcomes :
        /\ legs' = <<o1, o2>>
        /\ steps' = Append(steps, StepResult("euro", 0, ~(o1 = "ok" /\ o2 = "ok"), 0))
        /\ IF o1 = "ok" /\ o2 = "ok"
           THEN resp' = <<Response(200, "conversion via EUR")>>
           ELSE UNCHANGED resp
    /\ pc' = "done"
    /\ UNCHANGED <<timeVars, otherVars, req, params, fbIndex, cacheLog>>

\* lines 298-302 and 331-366: tryEuroConversion; the error thrown by
\* handleRealTimeConversion rejects the promise handleRequest has already
\* returned, so it reaches the catch of the fetch listener (lines 232-235)
TryEuroConversionWith(o1, o2) ==
    /\ pc = "rt_euro"
    /\ fetchLog' = fetchLog \o <<LatestCall(Params.from, EUR), LatestCall(EUR, Params.to)>>
    /\ steps' = Append(steps, StepResult("euro", 0, ~(o1 = "ok" /\ o2 = "ok"), 0))
    /\ IF o1 = "ok" /\ o2 = "ok"
       THEN resp' = <<Response(200, "conversion via EUR")>>
       ELSE resp' = <<Response(500, "system error")>>
    /\ pc' = "done"
    /\ UNCHANGED <<timeVars, otherVars, req, params, fbIndex, cacheLog>>

\* lines 298-302: the conversion through EUR, whatever its two calls come
\* to; legs keeps what they came to
TryEuroConversion ==
    \E o1 \in LatestOutcomes, o2 \in LatestOutcomes :
        TryEuroConversionWith(o1, o2) /\ legs' = <<o1, o2>>

\* handleHistoricalData going from the direct query straight to range
\* shrinking
TryDirectHistoricalQuery_SkipEuro ==
    /\ pc = "hist_direct"
    /\ phrase' = Params.timeRange
    /\ range' = <<ParseTimeRange(Params.timeRange, now)>>
    /\ fetchLog' = Append(fetchLog,
            RangeCall(Params.from, Params.to,
                      ParseTimeRange(Params.timeRange, now).startDate,
                      ParseTimeRange(Params.timeRange, now).endDate))
    /\ \E o \in RangeOutcomes(DirectPoints) :
        /\ steps' = Append(steps, StepResult("direct", 0, o.kind # "ok", o.points))
        /\ IF DirectResult(o).ok /\ DirectResult(o).dataPoints >= 100
           THEN resp' = <<Response(200, DirectResult(o).content)>> /\ pc' = "done"
           ELSE pc' = "hist_fallback" /\ UNCHANGED resp
    /\ fbIndex' = IF pc' = "hist_fallback" THEN 1 ELSE fbIndex
    /\ UNCHANGED <<now, otherVars, req, params, cacheLog, legs>>

\* lines 369-376 and 390-417: parseTimeRange and the direct query
TryDirectHistoricalQueryWith(o) ==
    /\ pc = "hist_direct"
    /\ phrase' = Params.timeRange
    /\ range' = <<ParseTimeRange(Params.timeRange, now)>>
    /\ fetchLog' = Append(fetchLog,
            RangeCall(Params.from, Params.to,
                      ParseTimeRange(Params.timeRange, now).startDate,
                      ParseTimeRange(Params.timeRange, now).endDate))
    /\ steps' = Append(steps, StepResult("direct", 0, o.kind # "ok", o.points))
    /\ IF DirectResult(o).ok /\ DirectResult(o).dataPoints >= 100
       THEN resp' = <<Response(200, DirectResult(o).content)>> /\ pc' = "done"
       ELSE pc' = "hist_euro" /\ UNCHANGED resp
    /\ UNCHANGED <<now, otherVars, req, params, fbIndex, cacheLog, legs>>

\* lines 373-376: the direct query, whatever its call comes to
TryDirectHistoricalQuery ==
    \E o \in RangeOutcomes(DirectPoints) : TryDirectHistoricalQueryWith(o)

\* lines 378-379 and 419-429: both leg queries are issued, and their
\* promises handed to Promise.all, before either is awaited
TryEuroHistoricalQuery ==
    /\ pc = "hist_euro"
    /\ fetchLog' = fetchLog \o
            << RangeCall(Params.from, EUR, TheRange.startDate, TheRange.endDate),
               RangeCall(EUR, Params.to, TheRange.startDate, TheRange.endDate) >>
    /\ legs' = <<"pending", "pending">>
    /\ pc' = "hist_euro_wait"
    /\ UNCHANGED <<timeVars, otherVars, req, params, fbIndex, cacheLog, steps, resp>>

\* lines 380-385: tryEuroHistoricalQuery gave r; a result is returned
\* whatever its number of points, null sends the chain to range shrinking
EuroStepEnds(r, failed) ==
    /\ steps' = Append(steps, StepResult("euro", 0, failed, r.dataPoints))
    /\ IF r.ok
       THEN /\ resp' = <<Response(200, r.content)>>
            /\ pc' = "done"
            /\ UNCHANGED fbIndex
       ELSE /\ pc' = "hist_fallback"
            /\ fbIndex' = 1
            /\ UNCHANGED resp

\* lines 426-456: leg i settles.  Promise.all rejects as soon as one leg
\* rejects, and the catch returns null; it fulfils when both legs have
\* fulfilled, and then the responses are checked, parsed and combined.
\* Nothing observes a leg that settles after Promise.all has rejected.
EuroLegSettlesWith(i, k) ==
    /\ legs[i] = "pending"
    /\ pc = "hist_euro_wait"
    /\ legs' = [legs EXCEPT ![i] = k]
    /\ IF k \in {"timeout", "error"}
       THEN EuroStepEnds(NullResult, TRUE)
       ELSE IF legs[3 - i] = "pending"
       THEN UNCHANGED <<pc, fbIndex, steps, resp>>
       ELSE IF ~LegsBothOk(k, legs[3 - i])
       THEN EuroStepEnds(NullResult, TRUE)
       ELSE \E o1 \in RangeBodies, o2 \in RangeBodies :
                \E c \in CombinedCounts(o1, o2) :
                    EuroStepEnds(EuroResult(o1, o2, c),
                                 o1.kind # "ok" \/ o2.kind # "ok")
    /\ UNCHANGED <<timeVars, otherVars, req, params, fetchLog, cacheLog>>

\* leg i settles, while Promise.all is awaited or after it has rejected
EuroLegSettles(i) ==
    \/ \E k \in LegKinds : EuroLegSettlesWith(i, k)
    \/ /\ legs[i] = "pending"
       /\ pc # "hist_euro_wait"
       /\ legs' = [legs EXCEPT ![i] = "unobserved"]
       /\ UNCHANGED <<pc, fbIndex, steps, resp>>
       /\ UNCHANGED <<timeVars, otherVars, req, params, fetchLog, cacheLog>>

\* lines 385-387 and 482-505: one turn of the loop of tryFallbackTimeRange
TryFallbackTimeRangeWith(o) ==
    /\ pc = "hist_fallback"
    /\ fetchLog' = Append(fetchLog,
            RangeCall(Params.from, Params.to,
                      SetFullYear(TheRange.endDate,
                                  TheRange.endDate.y - FallbackYears[fbIndex]),
                      TheRange.endDate))
    /\ steps' = Append(steps,
            StepResult("shrink", FallbackYears[fbIndex], o.kind # "ok", o.points))
    /\ IF DirectResult(o).ok /\ DirectResult(o).dataPoints > 50
       THEN /\ resp' = <<Annotated(Response(200, DirectResult(o).content),
                                   FallbackYears[fbIndex])>>
            /\ pc' = "done"
            /\ UNCHANGED fbIndex
       ELSE IF fbIndex < Len(FallbackYears)
       THEN /\ fbIndex' = fbIndex + 1
            /\ UNCHANGED <<pc, resp>>
       ELSE /\ resp' = <<Response(200, "data unavailable")>>
            /\ pc' = "done"
            /\ UNCHANGED fbIndex
    /\ UNCHANGED <<timeVars, otherVars, req, params, cacheLog, legs>>

\* one turn of the loop, whatever its call comes to
TryFallbackTimeRange ==
    \E o \in RangeOutcomes(ShrinkPoints) : TryFallbackTimeRangeWith(o)

(***************************************************************************)
(* Requests                                                                *)
(***************************************************************************)
RequestNows == {[y |-> 2024, m |-> 1, d |-> 29], [y |-> 2023, m |-> 0, d |-> 31]}

Requests ==
    [path : {"/", "/history"},
     from : {JSNull, Str(USD), Str(<<"r", "m", "b">>), Str(<<"mei3">>)},
     to : {JSNull, Str(CNY), Str(<<"X", "Y", "Z">>)},
     amount : {JSNull, Str(<<"3", "wan">>), Str(<<"a", "b", "c">>), Str(<<".">>)},
     range : {JSNull, Str(<<"guo", "qu", "1", "nian">>), Str(<<"3", "tian">>)}]

Init ==
    /\ now \in RequestNows
    /\ phrase = <<>>
    /\ range = NoResult
    /\ NormIdle /\ AmtIdle
    /\ req \in {<<r>> : r \in Requests}
    /\ pc = "start"
    /\ params = NoResult
    /\ fbIndex = 0
    /\ fetchLog = <<>>
    /\ cacheLog = <<>>
    /\ steps = <<>>
    /\ legs = <<"idle", "idle">>
    /\ resp = NoResult
    /\ TableIdle /\ CombineIdle

Next ==
    \/ HandleRequest
    \/ TryDirectConversion
    \/ TryEuroConversion
    \/ TryDirectHistoricalQuery
    \/ TryEuroHistoricalQuery
    \/ \E i \in 1..2 : EuroLegSettles(i)
    \/ TryFallbackTimeRange

Spec == Init /\ [][Next]_vars

(***************************************************************************)
(* Claims about the handler (checked under Spec)                           *)
(***************************************************************************)
\* from or to is unrecognized (normalizeCurrency gives no code), or the
\* amount is NaN
InvalidRequest(r) ==
    \/ ~Truthy(NormalizeCurrency(r.from))
    \/ ~Truthy(NormalizeCurrency(r.to))
    \/ IsNaN(ParseInputAmount(r.amount))

\* C10: a request whose from or to is unrecognized or whose amount is NaN
\* is answered at once with status 400, and no upstream fetch and no cache
\* access is issued before that response, on both paths.
C10_ValidationBeforeNetwork ==
    InvalidRequest(req[1]) =>
        /\ fetchLog = <<>>
        /\ cacheLog = <<>>
        /\ pc \in {"start", "done"}
        /\ pc = "done" => (resp # NoResult /\ resp[1].status = 400)

\* an invalid amount on the /history path, answered 400 with no call made
C10_Witness ==
    /\ pc = "done"
    /\ req[1].path = "/history"
    /\ req[1].amount = Str(<<"a", "b", "c">>)
    /\ Truthy(NormalizeCurrency(req[1].from))
    /\ Truthy(NormalizeCurrency(req[1].to))
    /\ resp = <<Response(400, "invalid amount")>>
    /\ fetchLog = <<>>

\* the request is valid and takes the real-time path
RealTimeRequest == ~InvalidRequest(req[1]) /\ ~IsHistoryPath(req[1].path)

\* the request is valid and takes the /history path
HistoryRequest == ~InvalidRequest(req[1]) /\ IsHistoryPath(req[1].path)

\* the direct /latest call and both /latest calls through EUR have failed
RealTimeAllFailed ==
    /\ Len(steps) = 2
    /\ steps[1].failed
    /\ legs[1] # "ok" /\ legs[2] # "ok"

\* C11: on the real-time path with valid parameters, when every upstream
\* call fails (non-2xx, timeout or missing rate) the response delivered has
\* status 502 (not 500 and not 200).
C11_RealTimeFailureIs502 ==
    (RealTimeRequest /\ pc = "done" /\ RealTimeAllFailed) =>
        (resp # NoResult /\ resp[1].status = 502)

\* the text of the response is a statistics report
IsStatisticsReport(r) == r.body \in {"report", "report via EUR"}

\* C12: on the /history path with valid parameters, the response that
\* carries the 'data unavailable' explanation has status 502 or 503, and
\* status 200 is returned only when a statistics report is delivered.
C12_UnavailableIs502Or503 ==
    (HistoryRequest /\ pc = "done") =>
        /\ resp # NoResult
        /\ resp[1].body = "data unavailable" => resp[1].status \in {502, 503}
        /\ resp[1].status = 200 => IsStatisticsReport(resp[1])

\* Every await of the handler settles: a fetch is bounded by the timeout of
\* fetchWithTimeout, and the other steps are synchronous.
\* Liveness is checked for one clock and for the requests that differ in
\* what the handler does with them: a missing, an unrecognized and a
\* recognized currency, a missing and an invalid amount, on both paths.
FairRequests ==
    {r \in Requests :
        /\ r.from \in {JSNull, Str(USD)}
        /\ r.amount \in {JSNull, Str(<<"a", "b", "c">>)}
        /\ r.range = JSNull}

FairInit ==
    /\ Init
    /\ now = [y |-> 2024, m |-> 1, d |-> 29]
    /\ req[1] \in FairRequests

FairSpec == FairInit /\ [][Next]_vars /\ WF_vars(Next)

\* the error handleRealTimeConversion throws when both tries gave null
RealTimeThrew ==
    /\ RealTimeRequest
    /\ Len(steps) = 2
    /\ steps[1].failed /\ steps[2].failed

IsLegCall(c) == c.kind = "range" /\ (c.from = EUR \/ c.to = EUR)

\* the number of shrunk-range steps that have ended
ShrinkSteps == Cardinality({i \in DOMAIN steps : steps[i].step = "shrink"})

\* C14: the steps of handleHistoricalData are attempted in the order
\* direct query, triangulated query, range shrinking: a shrunk-range query
\* is issued only after the direct query has ended and both leg queries
\* have been issued and their step has ended; in particular so when the
\* direct query yields 0 points; and once triangulation has succeeded (with
\* 100 points or any other number) no shrunk-range query is issued.
C14_DirectThenEuroThenShrink ==
    HistoryRequest =>
        /\ \A i \in DOMAIN steps :
            /\ steps[i].step = "direct" <=> i = 1
            /\ steps[i].step = "euro" <=> i = 2
            /\ steps[i].step = "shrink" <=> i >= 3
        /\ \A i \in DOMAIN fetchLog :
            /\ IsLegCall(fetchLog[i]) <=> i \in {2, 3}
            /\ i >= 2 => Len(steps) >= 1
            /\ i >= 4 => Len(steps) >= i - 2
        /\ (Len(steps) >= 2 /\ ~steps[2].failed /\ steps[2].points > 0) =>
            /\ Len(steps) = 2
            /\ Len(fetchLog) = 3
            /\ pc = "done"

\* the direct query gave a body with 0 dates, triangulation gave nothing,
\* and the first shrunk-range query has been made
C14_Witness ==
    /\ HistoryRequest
    /\ Len(steps) = 3
    /\ ~steps[1].failed /\ steps[1].points = 0
    /\ steps[2].step = "euro"
    /\ steps[3].step = "shrink"
    /\ Len(fetchLog) = 4

\* C15: every statistics report handleHistoricalData returns comes from a
\* step whose series has at least 50 points; a series with fewer points is
\* never accepted.
C15_ReportClearsThreshold ==
    (HistoryRequest /\ pc = "done" /\ resp # NoResult
        /\ IsStatisticsReport(resp[1])) =>
        steps[Len(steps)].points >= 50

(***************************************************************************)
(* generateHistoryTable                                                    *)
(*                                                                         *)
(* data.rates is a sequence of entries [date, rate] in the order of        *)
(* Object.entries; a date is [y, k], the k-th date of year y, and rate is  *)
(* rates[to] of that date.  A number is written in tenths (12 is 1.2);     *)
(* quotients are exact fractions, so the rounding of the floating-point    *)
(* division and of toFixed is not modelled.                                *)
(***************************************************************************)
MaxSeries == 3      \* a series has at most MaxSeries dates

RateNum(v) == [t |-> "number", v |-> v]
RateNaN == [t |-> "NaN", v |-> 0]
RateNull == [t |-> "null", v |-> 0]
RateUndefined == [t |-> "undefined", v |-> 0]

\* rate && !isNaN(rate), with every number accepted
ValidRate_ZeroOk(r) == r.t = "number"

\* line 585: rate && !isNaN(rate)
ValidRate(r) == r.t = "number" /\ r.v # 0

\* line 583: date.substring(0, 4)
YearOf(date) == date.y

Min2(a, b) == IF a <= b THEN a ELSE b
Max2(a, b) == IF a >= b THEN a ELSE b

RECURSIVE GCD(_, _)
GCD(a, b) == IF b = 0 THEN a ELSE GCD(b, a % b)

\* the quotient n / d of two non-negative numbers; a division by zero gives
\* Infinity or NaN, written with denominator 0
Frac(n, d) ==
    IF d = 0 THEN [n |-> IF n = 0 THEN 0 ELSE 1, d |-> 0]
    ELSE [n |-> n \div GCD(n, d), d |-> d \div GCD(n, d)]

\* lines 591-594 without the update of max
FoldRate_NoMax(stat, r) ==
    [min |-> Min2(stat.min, r), max |-> stat.max,
     sum |-> stat.sum + r, count |-> stat.count + 1]

\* lines 591-594
FoldRate(stat, r) ==
    [min |-> Min2(stat.min, r), max |-> Max2(stat.max, r),
     sum |-> stat.sum + r, count |-> stat.count + 1]

\* lines 582-597: yearlyStats after the entries of s, starting from stats
RECURSIVE FoldYears(_, _)
FoldYears(s, stats) ==
    IF s = <<>> THEN stats
    ELSE LET year == YearOf(Head(s).date)
             rate == Head(s).rate
         IN  IF ~ValidRate(rate) THEN FoldYears(Tail(s), stats)
             ELSE IF year \notin DOMAIN stats
             THEN FoldYears(Tail(s),
                    stats @@ (year :> [min |-> rate.v, max |-> rate.v,
                                       sum |-> rate.v, count |-> 1]))
             ELSE FoldYears(Tail(s),
                    [stats EXCEPT ![year] = FoldRate(@, rate.v)])

\* lines 582-586: allRates, the valid rates in the order of the entries
RECURSIVE AllRates(_)
AllRates(s) ==
    IF s = <<>> THEN <<>>
    ELSE IF ValidRate(Head(s).rate)
    THEN <<Head(s).rate.v>> \o AllRates(Tail(s))
    ELSE AllRates(Tail(s))

\* line 606: Object.keys(yearlyStats).sort(); the keys are four digits, so
\* the order of the strings is the order of the numbers
RECURSIVE SortedYears(_)
SortedYears(years) ==
    IF years = {} THEN <<>>
    ELSE LET first == CHOOSE y \in years : \A z \in years : y <= z
         IN  <<first>> \o SortedYears(years \ {first})

RECURSIVE SumSeq(_)
SumSeq(s) == IF s = <<>> THEN 0 ELSE Head(s) + SumSeq(Tail(s))

\* Math.min(...allRates) and Math.max(...allRates) of a non-empty array
MinSeq(s) == CHOOSE a \in {s[i] : i \in DOMAIN s} : \A i \in DOMAIN s : a <= s[i]
MaxSeq(s) == CHOOSE a \in {s[i] : i \in DOMAIN s} : \A i \in DOMAIN s : a >= s[i]

\* the last year of the sequence whose value is the target
FirstYear_Last(sorted, value, target) ==
    IF \A i \in DOMAIN sorted : value[sorted[i]] # target THEN 0
    ELSE sorted[CHOOSE i \in DOMAIN sorted :
                    /\ value[sorted[i]] = target
                    /\ \A j \in (i + 1)..Len(sorted) : value[sorted[j]] # target]

\* sortedYears.find(year => value[year] === target): the first year of the
\* sequence whose value is the target, or undefined (written 0) when none is
FirstYear(sorted, value, target) ==
    IF \A i \in DOMAIN sorted : value[sorted[i]] # target THEN 0
    ELSE sorted[CHOOSE i \in DOMAIN sorted :
                    /\ value[sorted[i]] = target
                    /\ \A j \in 1..(i - 1) : value[sorted[j]] # target]

\* lines 607-613: the row of a year
YearRow(year, stat) ==
    [year |-> year, min |-> stat.min, max |-> stat.max,
     avg |-> Frac(stat.sum, stat.count),
     volatility |-> Frac((stat.max - stat.min) * 100, stat.min)]

\* a text that is no report: it has no row and no overall figure
Message(kind) == [kind |-> kind, rows |-> <<>>, overall |-> <<>>]

\* lines 573-645
GenerateHistoryTable(s) ==
    IF s = <<>> THEN Message("no data")
    ELSE IF AllRates(s) = <<>> THEN Message("processing failed")
    ELSE LET yearlyStats == FoldYears(s, <<>>)
             allRates == AllRates(s)
             sortedYears == SortedYears(DOMAIN yearlyStats)
             overallMin == MinSeq(allRates)
             overallMax == MaxSeq(allRates)
             yearlyMin == [y \in DOMAIN yearlyStats |-> yearlyStats[y].min]
             yearlyMax == [y \in DOMAIN yearlyStats |-> yearlyStats[y].max]
         IN  [kind |-> "report",
              rows |-> [i \in DOMAIN sortedYears |->
                            YearRow(sortedYears[i], yearlyStats[sortedYears[i]])],
              overall |-> << [points |-> Len(allRates),
                              min |-> overallMin,
                              max |-> overallMax,
                              avg |-> Frac(SumSeq(allRates), Len(allRates)),
                              volatility |-> Frac((overallMax - overallMin) * 100,
                                                  overallMin),
                              minYear |-> FirstYear(sortedYears, yearlyMin, overallMin),
                              maxYear |-> FirstYear(sortedYears, yearlyMax, overallMax)] >>]

(***************************************************************************)
(* Inputs of generateHistoryTable: every series of at most MaxSeries       *)
(* distinct dates of two years, in every order, each date with a rate that *)
(* is missing, null, 0, NaN, 1.0, 1.1 or 1.2.                              *)
(***************************************************************************)
TableYears == {2022, 2023}
TableDays == {1, 2}
TableDates == {[y |-> y, k |-> k] : y \in TableYears, k \in TableDays}
TableRates ==
    {RateUndefined, RateNull, RateNaN, RateNum(0),
     RateNum(10), RateNum(11), RateNum(12)}
TableEntries == {[date |-> d, rate |-> r] : d \in TableDates, r \in TableRates}

\* the orders in which n distinct dates may come
DateOrders(n) ==
    {ds \in [1..n -> TableDates] : \A i, j \in 1..n : ds[i] = ds[j] => i = j}

\* the series of the dates ds with the rates rs
SeriesOf(ds, rs) == [i \in DOMAIN ds |-> [date |-> ds[i], rate |-> rs[i]]]

InitTable ==
    /\ \E n \in 0..MaxSeries :
        \E ds \in DateOrders(n), rs \in [1..n -> TableRates] :
            series = SeriesOf(ds, rs)
    /\ report = NoResult
    /\ TimeIdle /\ NormIdle /\ AmtIdle /\ ReqIdle /\ CombineIdle

DoGenerateHistoryTable ==
    /\ report = NoResult
    /\ report' = <<GenerateHistoryTable(series)>>
    /\ UNCHANGED <<timeVars, normVars, amtVars, reqVars, series, combineVars>>

NextTable == DoGenerateHistoryTable

SpecTable == InitTable /\ [][NextTable]_vars

(***************************************************************************)
(* Claims about generateHistoryTable (checked under SpecTable)             *)
(***************************************************************************)
\* the positions of the series that hold a valid rate of year y
ValidOfYear(y) ==
    {i \in DOMAIN series : series[i].date.y = y /\ ValidRate(series[i].rate)}

\* the sum of the rates at the positions of a set
RECURSIVE SumAt(_)
SumAt(positions) ==
    IF positions = {} THEN 0
    ELSE LET i == CHOOSE i \in positions : TRUE
         IN  series[i].rate.v + SumAt(positions \ {i})

\* the row the year's valid rates call for, whatever the order of the
\* dates and whatever the other years hold
ExpectedRow(y) ==
    LET lo == CHOOSE a \in {series[i].rate.v : i \in ValidOfYear(y)} :
                    \A i \in ValidOfYear(y) : a <= series[i].rate.v
        hi == CHOOSE a \in {series[i].rate.v : i \in ValidOfYear(y)} :
                    \A i \in ValidOfYear(y) : a >= series[i].rate.v
    IN  [year |-> y, min |-> lo, max |-> hi,
         avg |-> Frac(SumAt(ValidOfYear(y)), Cardinality(ValidOfYear(y))),
         volatility |-> Frac((hi - lo) * 100, lo)]

\* C16: the report has one row for every year that has a valid rate, and
\* the row holds the minimum, the maximum, sum/count and
\* (max - min)/min * 100 of that year's valid rates, which depend neither
\* on the other years nor on the order of the dates.
C16_YearlyFold ==
    (report # NoResult /\ report[1].kind = "report") =>
        /\ {report[1].rows[i].year : i \in DOMAIN report[1].rows}
                = {y \in TableYears : ValidOfYear(y) # {}}
        /\ \A i \in DOMAIN report[1].rows :
                report[1].rows[i] = ExpectedRow(report[1].rows[i].year)

\* 2022 with rates 1.2 and 1.0, in that order and around a date of 2023,
\* gives min 1.0, max 1.2, avg 1.1 and volatility 20%
C16_Witness ==
    /\ report # NoResult
    /\ Len(series) = 3
    /\ series[1] = [date |-> [y |-> 2022, k |-> 2], rate |-> RateNum(12)]
    /\ series[2].date.y = 2023 /\ series[2].rate = RateNum(11)
    /\ series[3] = [date |-> [y |-> 2022, k |-> 1], rate |-> RateNum(10)]
    /\ report[1].kind = "report"
    /\ report[1].rows[1] =
            [year |-> 2022, min |-> 10, max |-> 12,
             avg |-> [n |-> 11, d |-> 1], volatility |-> [n |-> 20, d |-> 1]]

\* every rate of the series is missing, null, zero or NaN
NoUsableRate ==
    \A i \in DOMAIN series :
        series[i].rate.t # "number" \/ series[i].rate.v = 0

\* C17: for a series with no dates, or one in which every rate is missing,
\* null, zero or NaN, generateHistoryTable returns a message that says no
\* report could be made, with no row and no overall figure: no average and
\* no volatility is computed, so nothing is divided by a zero count or a
\* zero minimum.
C17_NoDataReport ==
    (report # NoResult /\ NoUsableRate) =>
        /\ report[1].kind \in {"no data", "processing failed"}
        /\ report[1].kind = "no data" <=> series = <<>>
        /\ report[1].rows = <<>>
        /\ report[1].overall = <<>>

\* three dates whose rates are 0, NaN and null
C17_Witness ==
    /\ Len(series) = 3
    /\ series[1].rate = RateNum(0)
    /\ series[2].rate = RateNaN
    /\ series[3].rate = RateNull
    /\ report = <<Message("processing failed")>>

\* start is end moved back by the given number of years: the same day of
\* the same month, or 1 March when end is 29 February and the year reached
\* has no such day
YearsBefore(start, end, years) ==
    /\ start.y = end.y - years
    /\ \/ start.m = end.m /\ start.d = end.d
       \/ end.m = 1 /\ end.d = 29 /\ start.m = 2 /\ start.d = 1

\* the length of the i-th shrunk range
ShrunkYears(i) == CASE i = 1 -> 5 [] i = 2 -> 3 [] i = 3 -> 1

\* C18: range shrinking queries the pair directly over 5 years, then 3,
\* then 1, each range ending at the requested end date and each query made
\* after the one before has ended; the first result with more than 50
\* points is returned, annotated with the range shown, and no further range
\* is queried; a result with 50 points or fewer is not returned.
C18_ShrinkFiveThreeOne ==
    HistoryRequest =>
        /\ ShrinkSteps <= 3
        /\ Len(fetchLog) <= Len(steps) + 2
        /\ \A i \in DOMAIN steps : i >= 3 =>
            /\ steps[i].years = ShrunkYears(i - 2)
            /\ fetchLog[i + 1].kind = "range"
            /\ fetchLog[i + 1].from = Params.from
            /\ fetchLog[i + 1].to = Params.to
            /\ fetchLog[i + 1].end = TheRange.endDate
            /\ YearsBefore(fetchLog[i + 1].start, TheRange.endDate, steps[i].years)
            /\ (~steps[i].failed /\ steps[i].points > 50) =>
                /\ i = Len(steps)
                /\ pc = "done"
                /\ resp # NoResult
                /\ resp[1].status = 200
                /\ resp[1].annotation = steps[i].years
                /\ resp[1].body \in {"report", "processing failed"}
            /\ (steps[i].failed \/ steps[i].points <= 50) =>
                (resp # NoResult => resp[1].annotation # steps[i].years)
        /\ (resp # NoResult /\ resp[1].annotation # 0) => Len(steps) >= 3

\* the 5-year result has 50 points and the 3-year query fails, so both are
\* passed over; the 1-year result has 51 points and is returned
C18_Witness ==
    /\ HistoryRequest
    /\ Len(steps) = 5
    /\ ~steps[3].failed /\ steps[3].points = 50
    /\ steps[4].failed
    /\ ~steps[5].failed /\ steps[5].points = 51
    /\ pc = "done"
    /\ resp = <<Annotated(Response(200, "report"), 1)>>
    /\ Len(fetchLog) = 6

\* the ways a leg query fails: a non-2xx response, a timeout, a thrown error
LegFailures == {"non2xx", "timeout", "error"}

\* a leg has failed
SomeLegFailed == legs[1] \in LegFailures \/ legs[2] \in LegFailures

\* Promise.all has settled: a leg has rejected, or both have fulfilled
LegsSettled ==
    \/ legs[1] \in {"timeout", "error"} \/ legs[2] \in {"timeout", "error"}
    \/ (legs[1] \in {"ok", "non2xx"} /\ legs[2] \in {"ok", "non2xx"})

\* C19: both leg queries are issued before either is awaited; a combined
\* series is produced only when both legs have completed with a 2xx
\* response; and in every order of completion, once a leg has failed
\* (non-2xx, timeout or thrown error) no combined series is ever produced,
\* the step yields nothing, and the request goes on to range shrinking.
C19_BothLegsOrNothing ==
    HistoryRequest =>
        /\ legs # <<"idle", "idle">> =>
            /\ Len(fetchLog) >= 3
            /\ fetchLog[2] = RangeCall(Params.from, EUR,
                                       TheRange.startDate, TheRange.endDate)
            /\ fetchLog[3] = RangeCall(EUR, Params.to,
                                       TheRange.startDate, TheRange.endDate)
        /\ (Len(steps) >= 2 /\ steps[2].points > 0) => legs = <<"ok", "ok">>
        /\ (resp # NoResult /\ resp[1].body = "report via EUR") =>
                legs = <<"ok", "ok">>
        /\ SomeLegFailed =>
            /\ Len(steps) >= 2 => (steps[2].failed /\ steps[2].points = 0)
            /\ LegsSettled =>
                /\ pc \in {"hist_fallback", "done"}
                /\ Len(steps) >= 2
                /\ pc = "done" => (Len(steps) >= 3 /\ steps[3].step = "shrink")

\* the second leg has thrown while the first is still in flight, and the
\* request has gone on to the first shrunk-range query
C19_Witness ==
    /\ HistoryRequest
    /\ legs = <<"pending", "error">>
    /\ Len(steps) = 3
    /\ steps[2] = StepResult("euro", 0, TRUE, 0)
    /\ steps[3].step = "shrink"

(***************************************************************************)
(* combineEuroData                                                         *)
(*                                                                         *)
(* The rates of a leg are a sequence of entries [date, rate] in the order  *)
(* of Object.keys; rate is rates[date]?.EUR for the first leg and          *)
(* rates[date]?.[to] for the second.  The second leg is read by key only,  *)
(* so its entries are kept in ascending order of date.  Rates are whole    *)
(* numbers here.                                                           *)
(***************************************************************************)
MaxLegDates == 2    \* the first leg has at most MaxLegDates dates

\* rates[date]?.[key]: the rate of the date, undefined when the leg has no
\* such date
RECURSIVE RateOn(_, _)
RateOn(leg, date) ==
    IF leg = <<>> THEN RateUndefined
    ELSE IF Head(leg).date = date THEN Head(leg).rate
    ELSE RateOn(Tail(leg), date)

\* the truth value of a rate: null, undefined, 0 and NaN are falsy
RateTruthy(r) == r.t = "number" /\ r.v # 0

\* a * b on rates: undefined and NaN give NaN, null counts as 0
RateTimes(a, b) ==
    IF a.t \in {"undefined", "NaN"} \/ b.t \in {"undefined", "NaN"} THEN RateNaN
    ELSE RateNum(a.v * b.v)

\* line 467 with || in place of &&
KeepDate_Either(a, b) == RateTruthy(a) \/ RateTruthy(b)

\* line 467: fromToEurRate && eurToToRate
KeepDate(a, b) == RateTruthy(a) /\ RateTruthy(b)

\* lines 459-472: the combined rates, in the order of the first leg's dates
RECURSIVE CombineEuroData(_, _)
CombineEuroData(fromToEur, eurToTo) ==
    IF fromToEur = <<>> THEN <<>>
    ELSE LET date == Head(fromToEur).date
             fromToEurRate == Head(fromToEur).rate
             eurToToRate == RateOn(eurToTo, date)
         IN  IF KeepDate(fromToEurRate, eurToToRate)
             THEN <<[date |-> date,
                     rate |-> RateTimes(fromToEurRate, eurToToRate)]>>
                  \o CombineEuroData(Tail(fromToEur), eurToTo)
             ELSE CombineEuroData(Tail(fromToEur), eurToTo)

(***************************************************************************)
(* Inputs of combineEuroData: the first leg has at most MaxLegDates of     *)
(* three dates in any order, the second any of the three; a rate is        *)
(* missing, null, 0, 2 or 3.                                               *)
(***************************************************************************)
LegDates == {1, 2, 3}
LegRates == {RateUndefined, RateNull, RateNum(0), RateNum(2), RateNum(3)}

RECURSIVE FirstLegsOfLen(_)
FirstLegsOfLen(n) ==
    IF n = 0 THEN {<<>>}
    ELSE UNION {{Append(s, [date |-> d, rate |-> r]) :
                    d \in {x \in LegDates : \A i \in DOMAIN s : s[i].date # x},
                    r \in LegRates} :
                s \in FirstLegsOfLen(n - 1)}

FirstLegs == UNION {FirstLegsOfLen(n) : n \in 0..MaxLegDates}

\* the legs over the dates from d on, in ascending order of date
RECURSIVE SecondLegsFrom(_)
SecondLegsFrom(d) ==
    IF d \notin LegDates THEN {<<>>}
    ELSE SecondLegsFrom(d + 1)
         \cup {<<[date |-> d, rate |-> r]>> \o s :
                    r \in LegRates, s \in SecondLegsFrom(d + 1)}

SecondLegs == SecondLegsFrom(1)

InitCombine ==
    /\ legA \in FirstLegs
    /\ legB \in SecondLegs
    /\ combined = NoResult
    /\ TimeIdle /\ NormIdle /\ AmtIdle /\ ReqIdle /\ TableIdle

DoCombineEuroData ==
    /\ combined = NoResult
    /\ combined' = <<CombineEuroData(legA, legB)>>
    /\ UNCHANGED <<timeVars, normVars, amtVars, reqVars, tableVars, legA, legB>>

NextCombine == DoCombineEuroData

SpecCombine == InitCombine /\ [][NextCombine]_vars

(***************************************************************************)
(* Claims about combineEuroData (checked under SpecCombine)                *)
(***************************************************************************)
\* the dates a leg holds with a valid rate: a number other than 0
ValidDates(leg) ==
    {leg[i].date : i \in {j \in DOMAIN leg :
                            leg[j].rate.t = "number" /\ leg[j].rate.v # 0}}

\* the rate (a number) a leg holds on a date
NumberOn(leg, date) ==
    leg[CHOOSE i \in DOMAIN leg : leg[i].date = date].rate.v

\* C20: the dates of the combined series are exactly the dates that have a
\* valid rate in both legs, each once, and the combined rate of a date is
\* the product of the two legs' rates of that date; a date that only one
\* leg holds is not in the result.
C20_CombineIsProductOnCommonDates ==
    combined # NoResult =>
        /\ {combined[1][i].date : i \in DOMAIN combined[1]}
                = ValidDates(legA) \cap ValidDates(legB)
        /\ Len(combined[1]) = Cardinality(ValidDates(legA) \cap ValidDates(legB))
        /\ \A i \in DOMAIN combined[1] :
                combined[1][i].rate =
                    RateNum(NumberOn(legA, combined[1][i].date)
                            * NumberOn(legB, combined[1][i].date))

\* date 2 is in the first leg only, date 3 in the second only, and date 1
\* in both, with rates 3 and 2: the result is date 1 with rate 6
C20_Witness ==
    /\ legA = << [date |-> 2, rate |-> RateNum(2)],
                 [date |-> 1, rate |-> RateNum(3)] >>
    /\ legB = << [date |-> 1, rate |-> RateNum(2)],
                 [date |-> 3, rate |-> RateNum(3)] >>
    /\ combined = << <<[date |-> 1, rate |-> RateNum(6)]>> >>

(***************************************************************************)
(* C21: a call that exceeds its timeout against a non-2xx answer           *)
(***************************************************************************)
\* the two ways a range call fails that the claim compares
RangeFailure(k) == [kind |-> k, points |-> 0, valid |-> 0]

\* the step of handleHistoricalData through EUR ends in this transition with
\* a leg that timed out or that was answered with a non-2xx status
EuroStepEndsOnBadLeg ==
    /\ pc = "hist_euro_wait"
    /\ pc' # "hist_euro_wait"
    /\ \E i \in 1..2 : legs'[i] \in {"timeout", "non2xx"}

\* the transition takes the chain to range shrinking, with no response and
\* no further call
GoesToFallback ==
    /\ pc' = "hist_fallback"
    /\ fbIndex' = 1
    /\ steps' = Append(steps, StepResult("euro", 0, TRUE, 0))
    /\ UNCHANGED <<resp, fetchLog>>

TimeoutStepSameAsNon2xx ==
    /\ TryDirectConversionWith("timeout") <=> TryDirectConversionWith("non2xx")
    /\ \A o \in LatestOutcomes :
        /\ TryEuroConversionWith("timeout", o) <=> TryEuroConversionWith("non2xx", o)
        /\ TryEuroConversionWith(o, "timeout") <=> TryEuroConversionWith(o, "non2xx")
    /\ TryDirectHistoricalQueryWith(RangeFailure("timeout"))
            <=> TryDirectHistoricalQueryWith(RangeFailure("non2xx"))
    /\ TryFallbackTimeRangeWith(RangeFailure("timeout"))
            <=> TryFallbackTimeRangeWith(RangeFailure("non2xx"))
    /\ EuroStepEndsOnBadLeg => GoesToFallback
    /\ (pc = "hist_euro_wait" /\ pc' = "hist_euro_wait")
            => UNCHANGED <<resp, steps, fbIndex, fetchLog>>

\* C21: for every upstream call of both paths, the step taken when the call
\* exceeds its timeout is the step taken when the call is answered with a
\* non-2xx status, the other calls coming to the same: the same successor
\* state (next attempt, response status and text) for the direct conversion,
\* either leg of the conversion through EUR, the direct range query and each
\* shrunk-range query; and a query through EUR one of whose legs timed out
\* or was answered non-2xx always ends by going to range shrinking with no
\* response written
C21_TimeoutSameAsNon2xx == [][TimeoutStepSameAsNon2xx]_vars

\* a leg of the query through EUR timed out while the other was still
\* pending, and the chain is at range shrinking
C21_Witness ==
    /\ pc = "hist_fallback"
    /\ legs = <<"timeout", "pending">>
    /\ steps[Len(steps)] = StepResult("euro", 0, TRUE, 0)

(***************************************************************************)
(* C22: the upstream calls of the handlers and caches.default              *)
(***************************************************************************)
\* a call to cache.put for the URL of an upstream call
CachePut(call) == [op |-> "put", call |-> call]

\* the direct call of the request, the first of fetchLog, was answered with
\* a 2xx response whose body parsed
DirectCallSucceeded == steps # <<>> /\ steps[1].step = "direct" /\ ~steps[1].failed

\* C22: the rate fetcher is a read-through cache on both paths: once the
\* upstream GET of the direct step has succeeded, cache.put has been called
\* for its URL, so that a later request for the same URL can be answered
\* from the cache
C22_SuccessfulCallIsCached ==
    DirectCallSucceeded =>
        \E j \in 1..Len(cacheLog) : cacheLog[j] = CachePut(fetchLog[1])

(***************************************************************************)
(* fetchWithCache (lines 667-688), one call of it.  No handler calls it;   *)
(* it is modelled as a function of its own, on the variables of a request: *)
(* req holds the call and what it finds, pc the line reached, fetchLog the *)
(* calls of fetchWithTimeout, steps what each of them came to, cacheLog    *)
(* the calls on caches.default, legs[1] the promise cache.put returned,    *)
(* resp what the caller of fetchWithCache receives.                        *)
(***************************************************************************)
\* the ttl arguments: five minutes and one day
CacheTtls == {300, 86400}

CacheUrls ==
    { LatestCall(USD, CNY),
      RangeCall(USD, CNY, [y |-> 2014, m |-> 0, d |-> 1], [y |-> 2024, m |-> 0, d |-> 1]) }

\* cached: caches.default holds a response for the URL.  event: an
\* identifier named event is in scope at line 678, which depends on the
\* runtime, the function having no such parameter
CacheCalls ==
    [url : CacheUrls, ttl : CacheTtls, cached : BOOLEAN, event : BOOLEAN]

\* how a call of fetchWithTimeout settles
UpstreamKinds == {"ok", "non2xx", "timeout", "error"}

CacheMatch(url) == [op |-> "match", call |-> url]

\* what the caller receives: the response found in the cache, the response
\* of the n-th upstream call, or the rejection of the n-th upstream call
FromCache == [from |-> "cache", call |-> 0, ok |-> TRUE]
FromUpstream(n, ok) == [from |-> "upstream", call |-> n, ok |-> ok]
RejectedBy(n) == [from |-> "rejected", call |-> n, ok |-> FALSE]

InitCache ==
    /\ req \in {<<c>> : c \in CacheCalls}
    /\ pc = "fc_match"
    /\ params = NoResult /\ fbIndex = 0
    /\ fetchLog = <<>> /\ cacheLog = <<>> /\ steps = <<>>
    /\ legs = <<"idle", "idle">>
    /\ resp = NoResult
    /\ TimeIdle /\ NormIdle /\ AmtIdle /\ TableIdle /\ CombineIdle

cacheOther == <<timeVars, normVars, amtVars, tableVars, combineVars, req, params, fbIndex>>

\* lines 669-672: caches.default and cache.match(url); a throw or a
\* rejection goes to the catch
CacheLookup ==
    /\ pc = "fc_match"
    /\ cacheLog' = Append(cacheLog, CacheMatch(req[1].url))
    /\ \/ pc' = "fc_catch" /\ UNCHANGED resp
       \/ /\ req[1].cached
          /\ resp' = <<FromCache>> /\ pc' = "fc_done"
       \/ /\ ~req[1].cached
          /\ pc' = "fc_fetch" /\ UNCHANGED resp
    /\ UNCHANGED <<cacheOther, fetchLog, steps, legs>>

\* lines 673-674: the upstream call; a non-2xx response is returned as it
\* is, a rejection goes to the catch
CacheFetch ==
    /\ pc = "fc_fetch"
    /\ fetchLog' = Append(fetchLog, req[1].url)
    /\ \E k \in UpstreamKinds :
        /\ steps' = Append(steps, StepResult("fetch", 0, k # "ok", 0))
        /\ CASE k = "ok" -> pc' = "fc_put" /\ UNCHANGED resp
             [] k = "non2xx" ->
                    /\ resp' = <<FromUpstream(Len(fetchLog'), FALSE)>>
                    /\ pc' = "fc_done"
             [] OTHER -> pc' = "fc_catch" /\ UNCHANGED resp
    /\ UNCHANGED <<cacheOther, cacheLog, legs>>

\* lines 676-682: with no event in scope nothing is put.  Otherwise
\* cache.put is called and its promise given to event.waitUntil, neither
\* awaited; an exception either of them throws (waitUntil on an event that
\* is no longer active, an event without waitUntil) goes to the catch
CachePutStep ==
    /\ pc = "fc_put"
    /\ IF ~req[1].event
       THEN pc' = "fc_return" /\ UNCHANGED <<cacheLog, legs>>
       ELSE /\ cacheLog' = Append(cacheLog, CachePut(req[1].url))
            /\ \/ legs' = [legs EXCEPT ![1] = "pending"] /\ pc' = "fc_return"
               \/ legs' = [legs EXCEPT ![1] = "pending"] /\ pc' = "fc_catch"
               \/ UNCHANGED legs /\ pc' = "fc_catch"
    /\ UNCHANGED <<cacheOther, fetchLog, steps, resp>>

\* line 683: the response of the upstream call is returned
CacheReturn ==
    /\ pc = "fc_return"
    /\ resp' = <<FromUpstream(Len(fetchLog), TRUE)>>
    /\ pc' = "fc_done"
    /\ UNCHANGED <<cacheOther, fetchLog, cacheLog, steps, legs>>

\* the promise of cache.put settles, at any time after the call
CachePutSettles ==
    /\ legs[1] = "pending"
    /\ legs' \in {[legs EXCEPT ![1] = "stored"], [legs EXCEPT ![1] = "rejected"]}
    /\ UNCHANGED <<cacheOther, pc, fetchLog, cacheLog, steps, resp>>

\* lines 684-687: the catch calls fetchWithTimeout and returns what it
\* gives; its rejection rejects fetchWithCache
CacheCatch ==
    /\ pc = "fc_catch"
    /\ fetchLog' = Append(fetchLog, req[1].url)
    /\ \E k \in UpstreamKinds :
        /\ steps' = Append(steps, StepResult("fetch", 0, k # "ok", 0))
        /\ resp' = IF k \in {"ok", "non2xx"}
                   THEN <<FromUpstream(Len(fetchLog'), k = "ok")>>
                   ELSE <<RejectedBy(Len(fetchLog'))>>
    /\ pc' = "fc_done"
    /\ UNCHANGED <<cacheOther, cacheLog, legs>>

NextCache ==
    \/ CacheLookup
    \/ CacheFetch
    \/ CachePutStep
    \/ CacheReturn
    \/ CachePutSettles
    \/ CacheCatch

SpecCache == InitCache /\ [][NextCache]_vars

\* some upstream call of this call of fetchWithCache was answered 2xx
UpstreamSucceeded == \E i \in 1..Len(steps) : ~steps[i].failed

ValidPositions == {i \in DOMAIN series : ValidRate(series[i].rate)}

\* the least and the greatest valid rate of the series
LeastRate ==
    CHOOSE a \in {series[i].rate.v : i \in ValidPositions} :
        \A i \in ValidPositions : a <= series[i].rate.v
GreatestRate ==
    CHOOSE a \in {series[i].rate.v : i \in ValidPositions} :
        \A i \in ValidPositions : a >= series[i].rate.v

\* the years one of whose valid rates is the least, the greatest, of the
\* series
YearsOfLeast ==
    {y \in TableYears : \E i \in ValidOfYear(y) : series[i].rate.v = LeastRate}
YearsOfGreatest ==
    {y \in TableYears : \E i \in ValidOfYear(y) : series[i].rate.v = GreatestRate}

\* C24: in a report the rows are in ascending order of the year, the overall
\* minimum and maximum are the least and the greatest of all the valid rates
\* of the series, and the year named next to each is the earliest of the
\* years that attain it
C24_RowsAscendingAndExtremes ==
    (report # NoResult /\ report[1].kind = "report") =>
        /\ \A i, j \in DOMAIN report[1].rows :
                i < j => report[1].rows[i].year < report[1].rows[j].year
        /\ report[1].overall[1].min = LeastRate
        /\ report[1].overall[1].max = GreatestRate
        /\ report[1].overall[1].minYear \in YearsOfLeast
        /\ \A y \in YearsOfLeast : report[1].overall[1].minYear <= y
        /\ report[1].overall[1].maxYear \in YearsOfGreatest
        /\ \A y \in YearsOfGreatest : report[1].overall[1].maxYear <= y

\* the years tie on both extremes, the later year coming first in the
\* series: 2023 with 1.0 and 1.2, then 2022 with 1.0
C24_Witness ==
    /\ report # NoResult /\ report[1].kind = "report"
    /\ Len(series) = 3
    /\ series[1].date.y = 2023 /\ series[1].rate = RateNum(10)
    /\ series[2].date.y = 2022 /\ series[2].rate = RateNum(10)
    /\ series[3].date.y = 2023 /\ series[3].rate = RateNum(12)
    /\ Len(report[1].rows) = 2
    /\ report[1].overall[1].minYear = 2022
    /\ report[1].overall[1].maxYear = 2023

(***************************************************************************)
(* C25: inputs that match the keys of several currencies (under SpecNorm)  *)
(***************************************************************************)
\* the codes of the alias keys the cleaned input is a part of or contains
MatchingCodes(cleaned) ==
    {CURRENCY_ALIAS[i].code : i \in
        {k \in 1..Len(CURRENCY_ALIAS) :
            \/ Includes(CURRENCY_ALIAS[k].key, cleaned)
            \/ Includes(cleaned, CURRENCY_ALIAS[k].key)}}

\* the input is no key, is not emptied by the cleaning, and matches keys of
\* two currencies or more
AmbiguousInput ==
    /\ Truthy(curIn)
    /\ Cleaned(curIn.s) # <<>>
    /\ Cleaned(curIn.s) \notin AliasKeys
    /\ Cardinality(MatchingCodes(Cleaned(curIn.s))) >= 2

\* C25: an input that is no exact key and whose cleaned form is a part of,
\* or contains, alias keys of two or more currencies is rejected as
\* unrecognized (null or undefined), not resolved to one of them
C25_AmbiguousInputRejected ==
    (curOut # NoResult /\ AmbiguousInput) => ~Truthy(curOut[1])

(***************************************************************************)
(* C26: the shrunk ranges against the range requested                      *)
(***************************************************************************)
\* C26: range shrinking only narrows the range: every range queried by a
\* shrunk-range step has the end of the range requested and a start
\* strictly later than the start requested, whatever the length of the
\* range requested
C26_ShrinkOnlyNarrows ==
    HistoryRequest =>
        \A i \in DOMAIN steps : steps[i].step = "shrink" =>
            /\ fetchLog[i + 1].end = TheRange.endDate
            /\ DateGT(fetchLog[i + 1].start, TheRange.startDate)

(***************************************************************************)
(* C27: the 'data unavailable' answer against the data fetched             *)
(***************************************************************************)
\* C27: fetched data is never discarded for an 'unavailable' answer: when
\* handleHistoricalData answers 'data unavailable', every step of the
\* request (the direct query, the query through EUR, each shrunk range)
\* failed or yielded a series of no point
C27_UnavailableOnlyWithoutData ==
    (resp # NoResult /\ resp[1].body = "data unavailable") =>
        \A i \in DOMAIN steps : steps[i].failed \/ steps[i].points = 0

(***************************************************************************)
(* C28: the points counted against the points the table uses               *)
(***************************************************************************)
\* handleHistoricalData has returned the direct result, with no query
\* through EUR attempted
DirectAccepted ==
    /\ HistoryRequest
    /\ pc = "done"
    /\ Len(steps) = 1 /\ steps[1].step = "direct"
    /\ \A i \in DOMAIN fetchLog : ~IsLegCall(fetchLog[i])

\* C28: the count compared with the bar of 100 is the number of points the
\* table is computed from: when the direct result is accepted, the text
\* returned is a statistics report, never the 'no data' or the 'processing
\* failed' message
C28_AcceptedDirectIsReport ==
    DirectAccepted => (resp # NoResult /\ resp[1].body = "report")

====
